---- MODULE Spec2Model ----
(***************************************************************************)
(* A model of task/main.py: the TaskManager (in-memory task store) and its *)
(* JSON persistence (to_dict / save / load / _autosave).                   *)
(*                                                                         *)
(* JSON values are tagged records: [k |-> "null"], [k |-> "bool", b],      *)
(* [k |-> "num", n], [k |-> "str", s], [k |-> "arr", a] (a sequence) and   *)
(* [k |-> "obj", o] (an insertion-ordered sequence of [key, val] entries,  *)
(* as a Python dict is).  A file holds the JSON value json.load would      *)
(* return from it, or is absent, or holds text that is not JSON.           *)
(***************************************************************************)
EXTENDS Integers, Sequences, FiniteSets, TLC

VARIABLES daily_tasks, task_id, current_file, files, last

vars == <<daily_tasks, task_id, current_file, files, last>>

----------------------------------------------------------------------------
(* Bounds of the model.                                                    *)

\* Add is explored while the store holds fewer than MaxTasks tasks.
MaxTasks == 3

\* Add is explored while the bucket's next-id counter is below MaxId.
MaxId == 2

----------------------------------------------------------------------------
(* JSON values.                                                            *)

JNull == [k |-> "null"]

JBool(b) == [k |-> "bool", b |-> b]

JNum(n) == [k |-> "num", n |-> n]

JStr(s) == [k |-> "str", s |-> s]

JArr(a) == [k |-> "arr", a |-> a]

JObj(o) == [k |-> "obj", o |-> o]

\* isinstance(v, dict)
IsDict(v) == v.k = "obj"

\* Python truthiness of a decoded JSON value (used by `tasks_list or []`).
Truthy(v) ==
    CASE v.k = "null" -> FALSE
      [] v.k = "bool" -> v.b
      [] v.k = "num" -> v.n # 0
      [] v.k = "str" -> v.s # ""
      [] v.k = "arr" -> v.a # <<>>
      [] v.k = "obj" -> v.o # <<>>

----------------------------------------------------------------------------
(* Insertion-ordered dictionaries (Python dict): sequences of [key, val].  *)

Keys(d) == [i \in 1..Len(d) |-> d[i].key]

KeySet(d) == {d[i].key : i \in 1..Len(d)}

\* key in d
Has(d, key) == key \in KeySet(d)

\* d[key], for a key that is present
Lookup(d, key) == d[CHOOSE i \in 1..Len(d) : d[i].key = key].val

\* d.get(key, default)
Get(d, key, default) == IF Has(d, key) THEN Lookup(d, key) ELSE default

\* d[key] = val: an existing key keeps its position, a new key goes last.
Put(d, key, val) ==
    IF Has(d, key)
    THEN [i \in 1..Len(d) |-> IF d[i].key = key THEN [key |-> key, val |-> val] ELSE d[i]]
    ELSE Append(d, [key |-> key, val |-> val])

\* d.setdefault(key, val)
SetDefault(d, key, val) == IF Has(d, key) THEN d ELSE Append(d, [key |-> key, val |-> val])

----------------------------------------------------------------------------
(* Strings: the bucket-name strings of the model and Python's str methods  *)
(* on them.                                                                *)

\* TaskManager.__init__: the eight canonical buckets, in construction order.
Days == <<"monday", "tuesday", "wednesday", "thursday", "friday", "saturday", "sunday", "general">>

CapDays == <<"Monday", "Tuesday", "Wednesday", "Thursday", "Friday", "Saturday", "Sunday", "General">>

DaySet == {Days[i] : i \in 1..Len(Days)}

\* The bucket-name strings that hold a letter, as <<lowercase, capitalized>>.
Names ==
    {<<Days[i], CapDays[i]>> : i \in 1..Len(Days)} \cup {<<"foo", "Foo">>, <<"bar", "Bar">>}

LowerTable == [s \in {n[2] : n \in Names} |-> (CHOOSE n \in Names : n[2] = s)[1]]

CapitalizeTable == [s \in {n[1] : n \in Names} |-> (CHOOSE n \in Names : n[1] = s)[2]]

\* str.lower() on the strings of the model: a capitalized name is lowered,
\* a lowercase name and the empty string are kept.
Lower(s) == IF s \in DOMAIN LowerTable THEN LowerTable[s] ELSE s

\* str.capitalize() on the strings of the model: a lowercase name gets its
\* first letter in upper case, a capitalized name and the empty string are kept.
Capitalize(s) == IF s \in DOMAIN CapitalizeTable THEN CapitalizeTable[s] ELSE s

\* The characters of a string (iterating a str yields its characters).
Chars(s) ==
    CASE s = "" -> <<>>
      [] s = "ab" -> <<"a", "b">>
      [] OTHER -> <<s>>

----------------------------------------------------------------------------
(* Task and TaskStatus.                                                    *)

PENDING == "Pending"

DONE == "Done"

\* Task(id, name, status): name and status hold whatever value was stored.
Task(id, name, status) == [id |-> id, name |-> name, status |-> status]

\* The task slot of a conversion that raised.
NoTask == [id |-> -1, name |-> JNull, status |-> JNull]

\* Python's None as a returned value.
None == JNull

----------------------------------------------------------------------------
(* The file system the session runs in.                                    *)

\* current_file = None
NoPath == "None"

\* A path that does not exist (os.path.exists is false).
NoFile == [k |-> "nofile"]

\* A file whose text json.load cannot decode.
Corrupt == [k |-> "invalid"]

\* One entry of an insertion-ordered dictionary.
KV(key, val) == [key |-> key, val |-> val]

\* The paths of the model: the default file name of prompt_filename, which
\* can be written, and a path in a directory that does not exist.
Paths == {"tasks.json", "nodir/tasks.json"}

\* open(filename, "w") succeeds on these paths and raises on the others.
WritablePaths == {"tasks.json"}

\* {"task": name, "status": status}
Entry(name, status) == JObj(<<KV("task", JStr(name)), KV("status", JStr(status))>>)

\* A canonical-shape document with a lowercase key, an entry without task and
\* status fields, an entry that is not an object, an entry carrying an id, and
\* bucket values that are a string, an object, null and zero.
LooseDoc ==
    JObj(<<KV("monday", JArr(<<JObj(<<KV("name", JStr("a"))>>), JStr("x")>>)),
           KV("Friday", JArr(<<JObj(<<KV("id", JNum(7)), KV("task", JStr("b")),
                                     KV("status", JStr(DONE))>>)>>)),
           KV("Tuesday", JStr("ab")),
           KV("Wednesday", JObj(<<KV("x", JNum(1))>>)),
           KV("Thursday", JNull),
           KV("General", JNum(0))>>)

\* A canonical-shape document whose Tuesday value is a number.
PartialDoc ==
    JObj(<<KV("Monday", JArr(<<Entry("a", PENDING)>>)),
           KV("Tuesday", JNum(5)),
           KV("Friday", JArr(<<Entry("b", PENDING)>>))>>)

\* A document that is not a mapping.
ArrayDoc == JArr(<<JNum(1)>>)

\* A legacy document: friday before monday, an entry without id and status,
\* an id that is not the entry's position and repeats the first entry's id, a
\* bucket that is not canonical, and a stored task_id map.
LegacyDoc ==
    JObj(<<KV("daily_tasks",
              JObj(<<KV("friday", JArr(<<>>)),
                     KV("monday", JArr(<<JObj(<<KV("name", JStr("a"))>>),
                                         JObj(<<KV("id", JNum(0)), KV("name", JStr("c")),
                                                KV("status", JStr(DONE))>>)>>)),
                     KV("bar", JArr(<<>>))>>)),
           KV("task_id", JObj(<<KV("monday", JNum(9)), KV("friday", JNum(4))>>))>>)

\* A legacy document with an entry that is not an object.
LegacyBadDoc ==
    JObj(<<KV("daily_tasks",
              JObj(<<KV("monday", JArr(<<JObj(<<KV("id", JNum(0)), KV("name", JStr("a"))>>)>>)),
                     KV("tuesday", JArr(<<JStr("x")>>))>>))>>)

\* The documents an earlier run or the user may have left at a path: one of
\* each shape load distinguishes, and text that is not JSON.
Documents ==
    {LooseDoc, PartialDoc, ArrayDoc, LegacyDoc, LegacyBadDoc, Corrupt}

----------------------------------------------------------------------------
(* Persistence: to_dict and save.                                          *)

\* [{"task": t.name, "status": t.status} for t in tasks]
TaskEntries(tasks) ==
    JArr([i \in 1..Len(tasks) |->
            JObj(<<KV("task", tasks[i].name), KV("status", tasks[i].status)>>)])

RECURSIVE ToDictFrom(_, _, _)
\* The dict comprehension of to_dict, bucket by bucket in iteration order.
ToDictFrom(dt, i, acc) ==
    IF i > Len(dt) THEN acc
    ELSE ToDictFrom(dt, i + 1, Put(acc, Capitalize(dt[i].key), TaskEntries(dt[i].val)))

\* TaskManager.to_dict
to_dict(dt) == JObj(ToDictFrom(dt, 1, <<>>))

\* open(filename, "w") does not raise
CanWrite(filename) == filename \in WritablePaths

\* save that records the path before it opens the file.
saveSetsPathFirst(dt, cf, fs, filename) ==
    IF CanWrite(filename)
    THEN [ok |-> TRUE, files |-> [fs EXCEPT ![filename] = to_dict(dt)], current_file |-> filename]
    ELSE [ok |-> FALSE, files |-> fs, current_file |-> filename]

\* TaskManager.save: the files and current_file it leaves, and what it returns.
save(dt, cf, fs, filename) ==
    IF CanWrite(filename)
    THEN [ok |-> TRUE, files |-> [fs EXCEPT ![filename] = to_dict(dt)], current_file |-> filename]
    ELSE [ok |-> FALSE, files |-> fs, current_file |-> cf]

\* `if self.current_file:`
HasCurrentFile(cf) == cf # NoPath /\ cf # ""

\* _autosave that never calls save.
autosaveNever(dt, cf, fs) == [files |-> fs, saved |-> NoPath, wrote |-> FALSE]

\* TaskManager._autosave: the files it leaves, the path save was called with
\* (NoPath when it was not called) and whether that write succeeded.
autosave(dt, cf, fs) ==
    IF HasCurrentFile(cf)
    THEN [files |-> save(dt, cf, fs, cf).files, saved |-> cf, wrote |-> save(dt, cf, fs, cf).ok]
    ELSE [files |-> fs, saved |-> NoPath, wrote |-> FALSE]

----------------------------------------------------------------------------
(* Persistence: load.  An operator that can raise returns a record whose   *)
(* ok field is FALSE when the Python code raises.                          *)

\* Iterating a decoded JSON value (`for t in v`, `enumerate(v)`): a list gives
\* its elements, a str its characters, a dict its keys; anything else raises
\* TypeError.
Iter(v) ==
    CASE v.k = "arr" -> [ok |-> TRUE, items |-> v.a]
      [] v.k = "str" -> [ok |-> TRUE, items |-> [i \in 1..Len(Chars(v.s)) |-> JStr(Chars(v.s)[i])]]
      [] v.k = "obj" -> [ok |-> TRUE, items |-> [i \in 1..Len(v.o) |-> JStr(v.o[i].key)]]
      [] OTHER -> [ok |-> FALSE, items |-> <<>>]

\* The decimal digits, for int() of a one-digit string.
Digits == <<"0", "1", "2", "3", "4", "5", "6", "7", "8", "9">>

\* int(v) of a decoded JSON value: a number is kept, a bool is 0 or 1, a str of
\* digits is parsed, anything else raises.
IntOf(v) ==
    CASE v.k = "num" -> [ok |-> TRUE, n |-> v.n]
      [] v.k = "bool" -> [ok |-> TRUE, n |-> IF v.b THEN 1 ELSE 0]
      [] v.k = "str" /\ (\E i \in 1..Len(Digits) : Digits[i] = v.s) ->
            [ok |-> TRUE, n |-> (CHOOSE i \in 1..Len(Digits) : Digits[i] = v.s) - 1]
      [] OTHER -> [ok |-> FALSE, n |-> 0]

\* LegacyTask that numbers every entry by its position.
LegacyTaskByPosition(t, i) ==
    IF IsDict(t) /\ IntOf(Get(t.o, "id", JNum(i))).ok
    THEN [ok |-> TRUE,
          task |-> Task(i, Get(t.o, "name", JStr("")), Get(t.o, "status", JStr(PENDING)))]
    ELSE [ok |-> FALSE, task |-> NoTask]

\* Task(int(t.get("id", i)), t.get("name", ""), t.get("status", "Pending")),
\* with i the 0-based position; raises when t is no dict or int() raises.
LegacyTask(t, i) ==
    IF IsDict(t) /\ IntOf(Get(t.o, "id", JNum(i))).ok
    THEN [ok |-> TRUE,
          task |-> Task(IntOf(Get(t.o, "id", JNum(i))).n, Get(t.o, "name", JStr("")),
                        Get(t.o, "status", JStr(PENDING)))]
    ELSE [ok |-> FALSE, task |-> NoTask]

\* [Task(...) for i, t in enumerate(tasks)]
LegacyTasks(tasks) ==
    LET it == Iter(tasks)
    IN  IF it.ok /\ \A i \in 1..Len(it.items) : LegacyTask(it.items[i], i - 1).ok
        THEN [ok |-> TRUE, tasks |-> [i \in 1..Len(it.items) |-> LegacyTask(it.items[i], i - 1).task]]
        ELSE [ok |-> FALSE, tasks |-> <<>>]

RECURSIVE EnsureDays(_, _)
\* for d in [...]: self.daily_tasks.setdefault(d, [])
EnsureDays(dt, i) ==
    IF i > Len(Days) THEN dt ELSE EnsureDays(SetDefault(dt, Days[i], <<>>), i + 1)

\* max((t.id for t in tasks), default=-1)
MaxIdOf(tasks) ==
    IF tasks = <<>> THEN -1
    ELSE CHOOSE m \in {tasks[i].id : i \in 1..Len(tasks)} :
            \A i \in 1..Len(tasks) : tasks[i].id <= m

\* RebuildTaskId without the `+ 1`: the counter is the greatest id itself.
RebuildTaskIdNoSuccessor(dt) == [d \in KeySet(dt) |-> MaxIdOf(Lookup(dt, d))]

\* The rebuilt task_id mapping of the legacy branch.
RebuildTaskId(dt) == [d \in KeySet(dt) |-> MaxIdOf(Lookup(dt, d)) + 1]

\* The legacy branch of load: daily_tasks is assigned only after the whole
\* comprehension was evaluated, so a raise leaves the store as it was.
LoadLegacy(data, dt, tid) ==
    LET daily == Get(data.o, "daily_tasks", JObj(<<>>))
    IN  IF IsDict(daily) /\ \A i \in 1..Len(daily.o) : LegacyTasks(daily.o[i].val).ok
        THEN LET conv == [i \in 1..Len(daily.o) |->
                             KV(daily.o[i].key, LegacyTasks(daily.o[i].val).tasks)]
                 all == EnsureDays(conv, 1)
             IN  [ok |-> TRUE, dt |-> all, tid |-> RebuildTaskId(all)]
        ELSE [ok |-> FALSE, dt |-> dt, tid |-> tid]

\* CanonicalTask that keeps an id the entry carries.
CanonicalTaskKeepsId(t, next_id) ==
    LET name == IF IsDict(t) THEN Get(t.o, "task", JNull) ELSE JNull
        status == IF IsDict(t) THEN Get(t.o, "status", JNull) ELSE JStr(PENDING)
        name2 == IF name = JNull
                 THEN (IF IsDict(t) THEN Get(t.o, "name", JNull) ELSE JStr(""))
                 ELSE name
        id == IF IsDict(t) /\ IntOf(Get(t.o, "id", JNum(next_id))).ok
              THEN IntOf(Get(t.o, "id", JNum(next_id))).n ELSE next_id
    IN  Task(id, name2, status)

\* The Task the canonical branch builds from entry t with id next_id.
CanonicalTask(t, next_id) ==
    LET name == IF IsDict(t) THEN Get(t.o, "task", JNull) ELSE JNull
        status == IF IsDict(t) THEN Get(t.o, "status", JNull) ELSE JStr(PENDING)
        name2 == IF name = JNull
                 THEN (IF IsDict(t) THEN Get(t.o, "name", JNull) ELSE JStr(""))
                 ELSE name
    IN  Task(next_id, name2, status)

\* self.task_id[d] = n
SetCounter(tid, d, n) == [x \in DOMAIN tid \cup {d} |-> IF x = d THEN n ELSE tid[x]]

RECURSIVE LoadCanonicalFrom(_, _, _, _)
\* The canonical branch of load from day i on: a bucket value that cannot be
\* iterated raises after the bucket was reset and before its counter is set.
LoadCanonicalFrom(data, i, dt, tid) ==
    IF i > Len(Days) THEN [ok |-> TRUE, dt |-> dt, tid |-> tid]
    ELSE LET d == Days[i]
             tasks_list == IF IsDict(data)
                           THEN Get(data.o, Capitalize(d), Get(data.o, d, JArr(<<>>)))
                           ELSE JArr(<<>>)
             it == Iter(IF Truthy(tasks_list) THEN tasks_list ELSE JArr(<<>>))
             tasks == [j \in 1..Len(it.items) |-> CanonicalTask(it.items[j], j - 1)]
         IN  IF it.ok
             THEN LoadCanonicalFrom(data, i + 1, Put(dt, d, tasks), SetCounter(tid, d, Len(tasks)))
             ELSE [ok |-> FALSE, dt |-> Put(dt, d, <<>>), tid |-> tid]

\* The canonical branch of load: self.daily_tasks = {} and then the loop.
LoadCanonical(data, dt, tid) == LoadCanonicalFrom(data, 1, <<>>, tid)

\* isinstance(data, dict) and "daily_tasks" in data
IsLegacy(data) == IsDict(data) /\ Has(data.o, "daily_tasks")

\* TaskManager.load: the store, counters and current_file it leaves, and what
\* it returns.
load(dt, tid, cf, fs, filename) ==
    IF fs[filename] = NoFile \/ fs[filename] = Corrupt
    THEN [ok |-> FALSE, dt |-> dt, tid |-> tid, current_file |-> cf]
    ELSE LET data == fs[filename]
             r == IF IsLegacy(data) THEN LoadLegacy(data, dt, tid) ELSE LoadCanonical(data, dt, tid)
         IN  [ok |-> r.ok, dt |-> r.dt, tid |-> r.tid,
              current_file |-> IF r.ok THEN filename ELSE cf]

----------------------------------------------------------------------------
(* The task store: add, edit_task_status, edit_task_name.                  *)

\* day_key = (day or "").lower() or "general"
DayKey(day) == IF Lower(day) = "" THEN "general" ELSE Lower(day)

\* self.task_id.setdefault(day_key, 0)
CounterDefault(tid, day_key) == IF day_key \in DOMAIN tid THEN tid ELSE SetCounter(tid, day_key, 0)

\* add that inserts the task at the front of the list.
addAtFront(dt, tid, day, name) ==
    LET day_key == DayKey(day)
        dt1 == IF Has(dt, day_key) THEN dt ELSE Put(dt, day_key, <<>>)
        tid1 == IF Has(dt, day_key) THEN tid ELSE CounterDefault(tid, day_key)
        task == Task(tid1[day_key], JStr(name), JStr(PENDING))
    IN  [dt |-> Put(dt1, day_key, <<task>> \o Lookup(dt1, day_key)),
         tid |-> [tid1 EXCEPT ![day_key] = @ + 1],
         task |-> task]

\* TaskManager.add up to the autosave: the store and counters it leaves and
\* the task it returns.
add(dt, tid, day, name) ==
    LET day_key == DayKey(day)
        dt1 == IF Has(dt, day_key) THEN dt ELSE Put(dt, day_key, <<>>)
        tid1 == IF Has(dt, day_key) THEN tid ELSE CounterDefault(tid, day_key)
        task == Task(tid1[day_key], JStr(name), JStr(PENDING))
    IN  [dt |-> Put(dt1, day_key, Append(Lookup(dt1, day_key), task)),
         tid |-> [tid1 EXCEPT ![day_key] = @ + 1],
         task |-> task]

\* The position of the last task of the list whose id is `id`, 0 when none.
LastMatch(task_list, id) ==
    IF \E i \in 1..Len(task_list) : task_list[i].id = id
    THEN CHOOSE i \in 1..Len(task_list) :
            /\ task_list[i].id = id
            /\ \A j \in (i + 1)..Len(task_list) : task_list[j].id # id
    ELSE 0

\* The position of the first task of the list whose id is `id`, 0 when none.
FirstMatch(task_list, id) ==
    IF \E i \in 1..Len(task_list) : task_list[i].id = id
    THEN CHOOSE i \in 1..Len(task_list) :
            /\ task_list[i].id = id
            /\ \A j \in 1..(i - 1) : task_list[j].id # id
    ELSE 0

\* self.daily_tasks.get(day.lower(), [])
TaskList(dt, day) == Get(dt, Lower(day), <<>>)

\* TaskManager.edit_task_status up to the autosave.
edit_task_status(dt, day, index, status) ==
    LET task_list == TaskList(dt, day)
        i == FirstMatch(task_list, index)
    IN  IF i = 0 THEN [found |-> FALSE, dt |-> dt]
        ELSE [found |-> TRUE,
              dt |-> Put(dt, Lower(day), [task_list EXCEPT ![i].status = JStr(status)])]

\* TaskManager.edit_task_name up to the autosave.
edit_task_name(dt, day, id, name) ==
    LET task_list == TaskList(dt, day)
        i == FirstMatch(task_list, id)
    IN  IF i = 0 THEN [found |-> FALSE, dt |-> dt]
        ELSE [found |-> TRUE,
              dt |-> Put(dt, Lower(day), [task_list EXCEPT ![i].name = JStr(name)])]

\* for day in self.daily_tasks: ... (view_all_task): the buckets in the order
\* they are printed.
view_all_task(dt) == Keys(dt)

\* view_tasks_per_day: the tasks printed for a day.
view_tasks_per_day(dt, day) == TaskList(dt, day)

----------------------------------------------------------------------------
(* The session as a state machine.                                         *)

\* The inputs explored.
AddDays == {"Monday", "Foo"}

\* The bucket names edit_task_status is called with.
EditDays == {"Monday", "Foo"}

\* The bucket names edit_task_name is called with.
RenameDays == {"Monday", "Bar"}

\* The ids edit_task_status and edit_task_name are called with.
EditIds == {0, 1}

AddNames == {"a"}

NewNames == {"b"}

Statuses == {DONE}

RECURSIVE TotalFrom(_, _)
TotalFrom(dt, i) == IF i > Len(dt) THEN 0 ELSE Len(dt[i].val) + TotalFrom(dt, i + 1)

\* The number of tasks in the store.
TotalTasks(dt) == TotalFrom(dt, 1)

\* No bucket-name string.
NoDay == "<none>"

\* What the last operation was and what it returned: ret is the value
\* returned (a Task from add, a bool from edit_task_status, save and load,
\* None from edit_task_name), saved the path save was called with (NoPath when
\* it was not called), wrote whether that write succeeded, and day the
\* bucket-name string add was called with (NoDay after any other operation).
Last(op, ret, saved, wrote) ==
    [op |-> op, ret |-> ret, saved |-> saved, wrote |-> wrote, day |-> NoDay]

\* TaskManager.__init__, in a directory where the writable path is absent or
\* holds one of the documents.
Init ==
    /\ daily_tasks = [i \in 1..Len(Days) |-> KV(Days[i], <<>>)]
    /\ task_id = [d \in DaySet |-> 0]
    /\ current_file = NoPath
    /\ \E doc \in Documents \cup {NoFile} :
          files = [p \in Paths |-> IF CanWrite(p) THEN doc ELSE NoFile]
    /\ last = Last("init", None, NoPath, FALSE)

\* handle_add: task_manager.add(day, name)
Add(day, name) ==
    LET r == add(daily_tasks, task_id, day, name)
        s == autosave(r.dt, current_file, files)
    IN  /\ TotalTasks(daily_tasks) < MaxTasks
        /\ (DayKey(day) \in DOMAIN task_id => task_id[DayKey(day)] < MaxId)
        /\ daily_tasks' = r.dt
        /\ task_id' = r.tid
        /\ files' = s.files
        /\ last' = [Last("add", r.task, s.saved, s.wrote) EXCEPT !.day = day]
        /\ UNCHANGED current_file

\* edit_task_status with the autosave after the loop instead of in it.
EditStatusAlwaysSaves(day, index, status) ==
    LET r == edit_task_status(daily_tasks, day, index, status)
        s == autosave(r.dt, current_file, files)
    IN  /\ daily_tasks' = r.dt
        /\ files' = s.files
        /\ last' = Last("setStatus", JBool(r.found), s.saved, s.wrote)
        /\ UNCHANGED <<task_id, current_file>>

\* handle_done: task_manager.edit_task_status(day, index, status)
EditStatus(day, index, status) ==
    LET r == edit_task_status(daily_tasks, day, index, status)
        s == IF r.found THEN autosave(r.dt, current_file, files)
             ELSE [files |-> files, saved |-> NoPath, wrote |-> FALSE]
    IN  /\ daily_tasks' = r.dt
        /\ files' = s.files
        /\ last' = Last("setStatus", JBool(r.found), s.saved, s.wrote)
        /\ UNCHANGED <<task_id, current_file>>

\* handle_edit: task_manager.edit_task_name(day, index, name)
EditName(day, id, name) ==
    LET r == edit_task_name(daily_tasks, day, id, name)
        s == IF r.found THEN autosave(r.dt, current_file, files)
             ELSE [files |-> files, saved |-> NoPath, wrote |-> FALSE]
    IN  /\ daily_tasks' = r.dt
        /\ files' = s.files
        /\ last' = Last("rename", None, s.saved, s.wrote)
        /\ UNCHANGED <<task_id, current_file>>

\* handle_save: task_manager.save(filename)
Save(filename) ==
    LET r == save(daily_tasks, current_file, files, filename)
    IN  /\ files' = r.files
        /\ current_file' = r.current_file
        /\ last' = Last("save", JBool(r.ok), filename, r.ok)
        /\ UNCHANGED <<daily_tasks, task_id>>

\* handle_load: task_manager.load(filename)
Load(filename) ==
    LET r == load(daily_tasks, task_id, current_file, files, filename)
    IN  /\ daily_tasks' = r.dt
        /\ task_id' = r.tid
        /\ current_file' = r.current_file
        /\ last' = Last("load", JBool(r.ok), NoPath, FALSE)
        /\ UNCHANGED files

Next ==
    \/ \E day \in AddDays, name \in AddNames : Add(day, name)
    \/ \E day \in EditDays, index \in EditIds, status \in Statuses : EditStatus(day, index, status)
    \/ \E day \in RenameDays, id \in EditIds, name \in NewNames : EditName(day, id, name)
    \/ \E filename \in Paths : Save(filename)
    \/ \E filename \in Paths : Load(filename)

Spec == Init /\ [][Next]_vars

\* Bucket-name strings that are not the name of their bucket: the blank one
\* prompt_day accepts, one of mixed case and one of no canonical bucket.
NameDays == {"", "Monday", "Foo"}

\* The session with the blank bucket name among its inputs.
NextNames ==
    \/ \E day \in NameDays, name \in AddNames : Add(day, name)
    \/ \E day \in NameDays, index \in EditIds, status \in Statuses : EditStatus(day, index, status)
    \/ \E filename \in Paths : Save(filename)
    \/ \E filename \in Paths : Load(filename)

SpecNames == Init /\ [][NextNames]_vars

----------------------------------------------------------------------------
(* Vocabulary of the properties.                                           *)

\* The tasks of bucket `key`, empty when the store has no such bucket.
Bucket(dt, key) == IF \E i \in 1..Len(dt) : dt[i].key = key
                   THEN dt[CHOOSE i \in 1..Len(dt) : dt[i].key = key].val
                   ELSE <<>>

\* The ids of the tasks of a list.
IdsOf(tasks) == {tasks[i].id : i \in 1..Len(tasks)}

\* The bucket names of the store.
BucketNames(dt) == {dt[i].key : i \in 1..Len(dt)}

----------------------------------------------------------------------------
\* C1: in every reachable state, every bucket that holds at least one task has
\* a next-id counter that is at least the greatest id in the bucket plus one.
CounterAboveIds ==
    \A key \in BucketNames(daily_tasks) :
        Bucket(daily_tasks, key) # <<>> =>
            /\ key \in DOMAIN task_id
            /\ \A id \in IdsOf(Bucket(daily_tasks, key)) : task_id[key] >= id + 1

\* A task was added to a bucket a legacy load had filled: monday holds the two
\* loaded tasks (both with id 0) and the added one.
CounterAboveIdsWitness ==
    /\ last.op = "add"
    /\ Len(Bucket(daily_tasks, "monday")) = 3
    /\ Bucket(daily_tasks, "monday")[2].id = 0
    /\ Bucket(daily_tasks, "monday")[1].id = 0
    /\ "bar" \in BucketNames(daily_tasks)

----------------------------------------------------------------------------
\* The observable content of the store: for every bucket that holds a task,
\* its (name, status) pairs in list order.
Observable(dt) ==
    [key \in {k \in BucketNames(dt) : Bucket(dt, k) # <<>>} |->
        [i \in 1..Len(Bucket(dt, key)) |->
            <<Bucket(dt, key)[i].name, Bucket(dt, key)[i].status>>]]

\* C2: saving the session to a file and then loading that file yields a
\* session with the same (bucket, name, status) triples in the same per-bucket
\* order.
RoundTripPreservesTasks ==
    [][(last.op = "save" /\ last.ret = JBool(TRUE) /\ last'.op = "load" /\ Load(last.saved))
          => (last'.ret = JBool(TRUE) /\ Observable(daily_tasks') = Observable(daily_tasks))]_vars

----------------------------------------------------------------------------
(* The steps the properties speak of.                                      *)

\* An add.
AddStep == last'.op = "add" /\ \E day \in AddDays, name \in AddNames : Add(day, name)

\* A setStatus whose id some task of the named bucket has.
StatusFoundStep ==
    /\ last'.op = "setStatus"
    /\ \E day \in EditDays, index \in EditIds, status \in Statuses :
        /\ index \in IdsOf(Bucket(daily_tasks, Lower(day)))
        /\ EditStatus(day, index, status)

\* A rename whose id some task of the named bucket has.
RenameFoundStep ==
    /\ last'.op = "rename"
    /\ \E day \in RenameDays, id \in EditIds, name \in NewNames :
        /\ id \in IdsOf(Bucket(daily_tasks, Lower(day)))
        /\ EditName(day, id, name)

\* C3: once the session has an associated file path, at the completion of
\* every add and of every rename or setStatus that finds its task, the file at
\* that path holds the canonical serialization of the session's tasks (when
\* the path can be written).
AutosaveKeepsFileCurrent ==
    [][((AddStep \/ StatusFoundStep \/ RenameFoundStep)
            /\ HasCurrentFile(current_file) /\ CanWrite(current_file))
          => (/\ current_file' = current_file
              /\ files'[current_file] = to_dict(daily_tasks'))]_vars

\* A rename found its task while a file was associated, after a load of a
\* legacy document: the file no longer holds the legacy document.
AutosaveKeepsFileCurrentWitness ==
    /\ last.op = "rename"
    /\ last.saved = "tasks.json"
    /\ last.wrote
    /\ "bar" \in BucketNames(daily_tasks)
    /\ files["tasks.json"] # LegacyDoc

----------------------------------------------------------------------------
\* C4: add(bucket, name) on a bucket whose next-id counter is c appends the
\* task {id: c, name, status: Pending} at the end of the lowercased bucket's
\* list, raises that counter to c + 1 and returns the task; every earlier
\* task, every other bucket's list and every other counter are unchanged.
AddAppendsOneTask ==
    [][\A day \in AddDays, name \in AddNames :
          (last'.op = "add" /\ DayKey(day) \in DOMAIN task_id /\ Add(day, name))
          => LET key == DayKey(day)
                 task == [id |-> task_id[key], name |-> JStr(name), status |-> JStr("Pending")]
             IN  /\ Bucket(daily_tasks', key) = Append(Bucket(daily_tasks, key), task)
                 /\ last'.ret = task
                 /\ DOMAIN task_id' = DOMAIN task_id
                 /\ task_id'[key] = task_id[key] + 1
                 /\ \A k \in DOMAIN task_id \ {key} : task_id'[k] = task_id[k]
                 /\ BucketNames(daily_tasks') = BucketNames(daily_tasks) \cup {key}
                 /\ \A k \in BucketNames(daily_tasks) \ {key} :
                        Bucket(daily_tasks', k) = Bucket(daily_tasks, k)]_vars

\* An add to "Foo" returned the task with id 1, now the second task of bucket
\* foo, while monday holds a task too.
AddAppendsOneTaskWitness ==
    /\ last.op = "add"
    /\ last.ret.id = 1
    /\ Len(Bucket(daily_tasks, "foo")) = 2
    /\ Bucket(daily_tasks, "foo")[2] = last.ret
    /\ Bucket(daily_tasks, "monday") # <<>>

----------------------------------------------------------------------------
\* C5: rename and setStatus called with an id that no task of the named bucket
\* has, or with a bucket name the store does not have, change no bucket, task
\* or counter, create no bucket, do not call save, and complete; setStatus
\* returns false.
NotFoundIsNoOp ==
    [][/\ \A day \in EditDays, index \in EditIds, status \in Statuses :
            (/\ last'.op = "setStatus"
             /\ index \notin IdsOf(Bucket(daily_tasks, Lower(day)))
             /\ EditStatus(day, index, status))
            => (/\ UNCHANGED <<daily_tasks, task_id, current_file, files>>
                /\ last'.saved = NoPath
                /\ last'.ret = JBool(FALSE))
       /\ \A day \in RenameDays, id \in EditIds, name \in NewNames :
            (/\ last'.op = "rename"
             /\ id \notin IdsOf(Bucket(daily_tasks, Lower(day)))
             /\ EditName(day, id, name))
            => (/\ UNCHANGED <<daily_tasks, task_id, current_file, files>>
                /\ last'.saved = NoPath
                /\ last'.ret = None)]_vars

\* setStatus returned false although monday holds tasks with both ids the
\* calls use, so it was called for a bucket that does not exist, while a file
\* was associated.
NotFoundIsNoOpWitness ==
    /\ last.op = "setStatus"
    /\ last.ret = JBool(FALSE)
    /\ current_file = "tasks.json"
    /\ IdsOf(Bucket(daily_tasks, "monday")) = EditIds
    /\ "foo" \notin BucketNames(daily_tasks)

----------------------------------------------------------------------------
\* C6: in every reachable state no two tasks of the same bucket have the same
\* id.
IdsUniquePerBucket ==
    \A key \in BucketNames(daily_tasks) :
        \A i, j \in 1..Len(Bucket(daily_tasks, key)) :
            i # j => Bucket(daily_tasks, key)[i].id # Bucket(daily_tasks, key)[j].id

----------------------------------------------------------------------------
\* C7: in every reachable state, the state a failed load leaves included, all
\* eight canonical buckets exist in the store.
AllEightBucketsExist == DaySet \subseteq BucketNames(daily_tasks)

----------------------------------------------------------------------------
\* C8: an add whose normalized bucket name is not a bucket of the store
\* creates the bucket with counter 0: the task returned has id 0 and the
\* bucket's counter becomes 1.
NewBucketStartsAtZero ==
    [][\A day \in AddDays, name \in AddNames :
          (/\ last'.op = "add"
           /\ DayKey(day) \notin BucketNames(daily_tasks)
           /\ Add(day, name))
          => (/\ last'.ret.id = 0
              /\ task_id'[DayKey(day)] = 1)]_vars

----------------------------------------------------------------------------
\* The position of the first task of the list that has the id.
FirstWithId(tasks, id) ==
    CHOOSE i \in 1..Len(tasks) : tasks[i].id = id /\ \A j \in 1..Len(tasks) : tasks[j].id = id => i <= j

\* The store after only task i of bucket `key` was replaced by `task`: the
\* same buckets in the same order, the same lists but for that one task.
OnlyTaskChanged(dt, dt2, key, i, task) ==
    /\ Len(dt2) = Len(dt)
    /\ \A b \in 1..Len(dt) :
        /\ dt2[b].key = dt[b].key
        /\ Len(dt2[b].val) = Len(dt[b].val)
        /\ \A j \in 1..Len(dt[b].val) :
              dt2[b].val[j] = IF dt[b].key = key /\ j = i THEN task ELSE dt[b].val[j]

\* C9: rename (setStatus) with an id present in the bucket changes only the
\* name (the status) of the first task in list order that has the id; that
\* task's id and other field, every other task, the order and length of the
\* lists and all counters are unchanged, and setStatus returns true.
EditChangesFirstMatchOnly ==
    [][/\ \A day \in EditDays, index \in EditIds, status \in Statuses :
            (/\ last'.op = "setStatus"
             /\ index \in IdsOf(Bucket(daily_tasks, Lower(day)))
             /\ EditStatus(day, index, status))
            => LET old == Bucket(daily_tasks, Lower(day))
                   i == FirstWithId(old, index)
               IN  /\ OnlyTaskChanged(daily_tasks, daily_tasks', Lower(day), i,
                                      [id |-> old[i].id, name |-> old[i].name,
                                       status |-> JStr(status)])
                   /\ task_id' = task_id
                   /\ last'.ret = JBool(TRUE)
       /\ \A day \in RenameDays, id \in EditIds, name \in NewNames :
            (/\ last'.op = "rename"
             /\ id \in IdsOf(Bucket(daily_tasks, Lower(day)))
             /\ EditName(day, id, name))
            => LET old == Bucket(daily_tasks, Lower(day))
                   i == FirstWithId(old, id)
               IN  /\ OnlyTaskChanged(daily_tasks, daily_tasks', Lower(day), i,
                                      [id |-> old[i].id, name |-> JStr(name),
                                       status |-> old[i].status])
                   /\ task_id' = task_id]_vars

\* setStatus returned true in a bucket whose two tasks both have id 0: the
\* first one was renamed and marked, the second one still has its name.
EditChangesFirstMatchOnlyWitness ==
    /\ last.op = "setStatus"
    /\ last.ret = JBool(TRUE)
    /\ Len(Bucket(daily_tasks, "monday")) >= 2
    /\ Bucket(daily_tasks, "monday")[1] = [id |-> 0, name |-> JStr("b"), status |-> JStr("Done")]
    /\ Bucket(daily_tasks, "monday")[2] = [id |-> 0, name |-> JStr("c"), status |-> JStr("Done")]

----------------------------------------------------------------------------
\* C10: after a successful load of a canonical-shape document, whatever the
\* session was before, the store holds exactly the eight canonical buckets,
\* each bucket's tasks have the ids 0, 1, ..., N-1 in list order, and each
\* bucket's counter is its number of tasks N.
CanonicalLoadRenumbers ==
    [][\A filename \in Paths :
          (/\ last'.op = "load"
           /\ last'.ret = JBool(TRUE)
           /\ ~IsLegacy(files[filename])
           /\ Load(filename))
          => (/\ BucketNames(daily_tasks') = DaySet
              /\ Len(daily_tasks') = Len(Days)
              /\ \A d \in DaySet :
                    /\ \A i \in 1..Len(Bucket(daily_tasks', d)) :
                          Bucket(daily_tasks', d)[i].id = i - 1
                    /\ task_id'[d] = Len(Bucket(daily_tasks', d)))]_vars

\* The loose canonical document (whose Friday entry carries id 7) was loaded
\* into a session that had a dynamic bucket with a counter of its own.
CanonicalLoadRenumbersWitness ==
    /\ last.op = "load"
    /\ last.ret = JBool(TRUE)
    /\ files["tasks.json"] = LooseDoc
    /\ "foo" \in DOMAIN task_id
    /\ Len(Bucket(daily_tasks, "monday")) = 2
    /\ Len(Bucket(daily_tasks, "tuesday")) = 2

----------------------------------------------------------------------------
\* The greatest id of a non-empty list of tasks.
GreatestId(tasks) ==
    CHOOSE m \in IdsOf(tasks) : \A id \in IdsOf(tasks) : id <= m

\* C11: after a successful load of a legacy-shape document each task's id is
\* its source id field when the entry has one and its 0-based position
\* otherwise, every bucket's counter is its greatest id + 1 (0 for an empty
\* bucket) whatever the stored task_id map says, and every canonical bucket
\* the document lacks exists and is empty.
LegacyLoadKeepsIds ==
    [][\A filename \in Paths :
          (/\ last'.op = "load"
           /\ last'.ret = JBool(TRUE)
           /\ IsLegacy(files[filename])
           /\ Load(filename))
          => LET daily == Lookup(files[filename].o, "daily_tasks").o
             IN  /\ \A b \in 1..Len(daily) :
                       LET src == Iter(daily[b].val).items
                           tasks == Bucket(daily_tasks', daily[b].key)
                       IN  /\ Len(tasks) = Len(src)
                           /\ \A i \in 1..Len(src) :
                                 tasks[i].id = IF Has(src[i].o, "id")
                                               THEN Lookup(src[i].o, "id").n
                                               ELSE i - 1
                 /\ DOMAIN task_id' = BucketNames(daily_tasks')
                 /\ \A key \in BucketNames(daily_tasks') :
                       task_id'[key] = IF Bucket(daily_tasks', key) = <<>> THEN 0
                                       ELSE GreatestId(Bucket(daily_tasks', key)) + 1
                 /\ \A d \in DaySet \ KeySet(daily) :
                       d \in BucketNames(daily_tasks') /\ Bucket(daily_tasks', d) = <<>>]_vars

\* The legacy document was loaded: monday holds the document's two entries,
\* both with id 0, its counter is 1 and not the stored 9, friday's is 0 and
\* not the stored 4, and tuesday, which the document lacks, is a bucket.
LegacyLoadKeepsIdsWitness ==
    /\ last.op = "load"
    /\ last.ret = JBool(TRUE)
    /\ files["tasks.json"] = LegacyDoc
    /\ IdsOf(Bucket(daily_tasks, "monday")) = {0}
    /\ Len(Bucket(daily_tasks, "monday")) = 2
    /\ task_id["monday"] = 1
    /\ task_id["friday"] = 0
    /\ "tuesday" \in BucketNames(daily_tasks)
    /\ "foo" \notin DOMAIN task_id

----------------------------------------------------------------------------
\* The value a canonical-shape document gives bucket d: the capitalized key,
\* else the lowercase key, else nothing; a document that is no mapping gives
\* nothing.
SourceOf(data, d) ==
    IF IsDict(data) THEN Get(data.o, Capitalize(d), Get(data.o, d, JArr(<<>>))) ELSE JArr(<<>>)

\* C12: after loading a canonical-shape document, a task whose entry is an
\* object without a status field, or is no object, has status "Pending", and
\* every task's status is a string, never null.
CanonicalLoadDefaultsStatus ==
    [][\A filename \in Paths :
          (/\ last'.op = "load"
           /\ last'.ret = JBool(TRUE)
           /\ ~IsLegacy(files[filename])
           /\ Load(filename))
          => \A d \in DaySet :
                LET src == SourceOf(files[filename], d)
                    tasks == Bucket(daily_tasks', d)
                IN  /\ \A i \in 1..Len(tasks) : tasks[i].status.k = "str"
                    /\ src.k = "arr" =>
                          \A i \in 1..Len(src.a) :
                              (~IsDict(src.a[i]) \/ ~Has(src.a[i].o, "status"))
                              => tasks[i].status = JStr(PENDING)]_vars

----------------------------------------------------------------------------
\* C13: loading a document that is no mapping, or a canonical-shape mapping
\* in which some bucket's value is no array, succeeds: the buckets whose value
\* is no array are empty, the others hold their entries, and the load is not
\* aborted.
MalformedBucketsLoadEmpty ==
    [][\A filename \in Paths :
          (/\ last'.op = "load"
           /\ files[filename] # NoFile
           /\ files[filename] # Corrupt
           /\ ~IsLegacy(files[filename])
           /\ Load(filename))
          => /\ last'.ret = JBool(TRUE)
             /\ \A d \in DaySet :
                   LET src == SourceOf(files[filename], d)
                   IN  /\ d \in BucketNames(daily_tasks')
                       /\ Len(Bucket(daily_tasks', d)) = IF src.k = "arr" THEN Len(src.a) ELSE 0]_vars

----------------------------------------------------------------------------
\* C14: loading the serialization of the session and serializing again gives
\* the same document: the same keys in the same order and the same entries.
SerializationIdempotent ==
    [][\A filename \in Paths :
          (/\ last'.op = "load"
           /\ files[filename] = to_dict(daily_tasks)
           /\ Load(filename))
          => (/\ last'.ret = JBool(TRUE)
              /\ to_dict(daily_tasks') = to_dict(daily_tasks))]_vars

----------------------------------------------------------------------------
\* C15: the associated file path is unset at construction; a save or load
\* that succeeds sets it to its own path; a failed save, a failed load, an
\* add, a rename and a setStatus (with their autosave) leave it as it is; once
\* set it is never unset; and while it is unset add, rename and setStatus
\* write no file.
CurrentFileSticky ==
    /\ current_file = NoPath
    /\ [][/\ \A filename \in Paths :
             (last'.op = "save" /\ Save(filename))
             => current_file' = IF last'.ret = JBool(TRUE) THEN filename ELSE current_file
          /\ \A filename \in Paths :
             (last'.op = "load" /\ Load(filename))
             => current_file' = IF last'.ret = JBool(TRUE) THEN filename ELSE current_file
          /\ last'.op \in {"add", "rename", "setStatus"} =>
                /\ current_file' = current_file
                /\ ~HasCurrentFile(current_file) => (files' = files /\ last'.saved = NoPath)
          /\ HasCurrentFile(current_file) => HasCurrentFile(current_file')]_vars

\* A save to a path that cannot be written failed while tasks.json was the
\* associated path, and tasks.json holds the serialization of a store with a
\* task, so an autosave or a save had written it before.
CurrentFileStickyWitness ==
    /\ last.op = "save"
    /\ last.saved = "nodir/tasks.json"
    /\ last.ret = JBool(FALSE)
    /\ current_file = "tasks.json"
    /\ TotalTasks(daily_tasks) > 0
    /\ files["tasks.json"] = to_dict(daily_tasks)

----------------------------------------------------------------------------
\* C16: in every reachable state, listing all buckets and the keys of the
\* serialized document visit the eight canonical buckets in construction
\* order, monday to sunday and then general, and after them the dynamically
\* created buckets.
CanonicalBucketsFirst ==
    LET order == view_all_task(daily_tasks)
        keys == Keys(to_dict(daily_tasks).o)
    IN  /\ Len(order) >= Len(Days)
        /\ \A i \in 1..Len(Days) : order[i] = Days[i]
        /\ \A i \in (Len(Days) + 1)..Len(order) : order[i] \notin DaySet
        /\ Len(keys) = Len(order)
        /\ \A i \in 1..Len(order) : keys[i] = Capitalize(order[i])

----------------------------------------------------------------------------
\* C17: add and setStatus resolve a bucket-name string to the same bucket:
\* right after add(b, n) returned task t, setStatus(b, t.id, Done) returns
\* true and t, the last task of its bucket, has status Done; b may be of mixed
\* case or the empty string, which add maps to general.
AddThenDoneFinds ==
    [][\A day \in NameDays :
          (/\ last.op = "add"
           /\ last.day = day
           /\ last'.op = "setStatus"
           /\ last.ret.id \in EditIds
           /\ EditStatus(day, last.ret.id, DONE))
          => LET tasks == Bucket(daily_tasks', DayKey(day))
             IN  /\ last'.ret = JBool(TRUE)
                 /\ tasks # <<>>
                 /\ tasks[Len(tasks)] = [last.ret EXCEPT !.status = JStr(DONE)]]_vars

----------------------------------------------------------------------------
\* C18: a load that reports failure, for a missing file or for any exception
\* while reading or decoding the document, leaves the session as it was: the
\* same buckets, the same tasks in the same order, the same counters and the
\* same associated file path.
FailedLoadChangesNothing ==
    [][\A filename \in Paths :
          (/\ last'.op = "load"
           /\ last'.ret = JBool(FALSE)
           /\ Load(filename))
          => UNCHANGED <<daily_tasks, task_id, current_file>>]_vars

====
